---- MODULE Spec2Model ----
(***************************************************************************)
(* Traffic-signal phase simulator of the TrafficSignalOverlay component    *)
(* (src/src/components/Navigation/NavigationPanel.tsx, lines 768-1493).    *)
(*                                                                         *)
(* Program state: the React state `trafficSignals`, the overlay context    *)
(* (the `currentLocation` prop the [map, currentLocation] effect last ran  *)
(* for) and the detection chains scheduled with setTimeout.                *)
(* The timer is the ref `intervalRef`, the set `activeIntervals` of the    *)
(* handles setInterval has returned and clearInterval has not cleared, and *)
(* `timerDep`, the dependency value the timer effect last ran with.        *)
(* The markers of one addEnhancedSignalsToMap call form a group, named by  *)
(* the number of the call: `mapMarkers` are the groups on the map,         *)
(* `shown` is what the elements of each group on the map display,          *)
(* `signalMarkers` is the group in the component's state (0 for []) and    *)
(* `cleanupMarkers` the value of that state in the render whose            *)
(* [map, currentLocation] effect ran last, which is the one its cleanup    *)
(* closure sees.                                                           *)
(* History variables (`ticks`, `lastOp`, `prev`, `obs`, `tickHandle`,      *)
(* `runningAtInstall`, `firstDemo`, `installed`, `lastBatch`) record what  *)
(* the last step did and what each signal has gone through since its      *)
(* creation; the program never reads them.                                 *)
(*                                                                         *)
(* Three specifications share the actions: Spec is the life of the         *)
(* overlay (mounts, location changes, detection, unmount) with a few ticks *)
(* per installed set, FactorySpec the signal factories under long          *)
(* detection batches, ClockSpec the phase clock over a whole period.       *)
(*                                                                         *)
(* Latitudes and longitudes are integers in units of 0.0001 degree.        *)
(* String ids and names built with template literals are tuples            *)
(* <<prefix, number>>.                                                     *)
(***************************************************************************)
EXTENDS Integers, Sequences, FiniteSets, TLC

VARIABLES trafficSignals, currentLocation, pendingDetections,
          overlay, intervalRef, activeIntervals, nextHandle, timerDep,
          mapMarkers, shown, signalMarkers, cleanupMarkers, nextMarker,
          ticks, lastOp, prev, obs, tickHandle, runningAtInstall, firstDemo,
          installed, lastBatch

vars == <<trafficSignals, currentLocation, pendingDetections,
          overlay, intervalRef, activeIntervals, nextHandle, timerDep,
          mapMarkers, shown, signalMarkers, cleanupMarkers, nextMarker,
          ticks, lastOp, prev, obs, tickHandle, runningAtInstall, firstDemo,
          installed, lastBatch>>

(***************************************************************************)
(* Bounds of the model.                                                    *)
(***************************************************************************)
\* ticks applied to one installed signal set before the model stops ticking it
MaxTicks == 2
\* candidates in one detection batch
MaxBatch == 1
\* detection chains scheduled and not yet ended
MaxPending == 2
\* handles setInterval hands out
MaxHandles == 3
\* calls of addEnhancedSignalsToMap
MaxMarkers == 4
\* icons a DOM search finds at most in the factory specification
MaxIcons == 109
\* length of the dense detection batches of the factory specification
MaxDense == 4
\* length of the POI batches of the factory specification
MaxPoi == 2
\* ticks the factory specification applies to an installed set
FactoryTicks == 2
\* ticks the clock specification applies to one registry value
ClockTicks == 182

(***************************************************************************)
(* Values.                                                                 *)
(***************************************************************************)
Phases == {"red", "yellow", "green", "walk"}

\* A value that may be `undefined` is a tuple: <<>> for undefined, <<v>> for
\* the value v (ids and names, tuples already, stand for themselves).
Undefined == <<>>
Some(v) == <<v>>

\* `currentLocation` when the overlay is not mounted (its context is torn down)
NoLocation == <<>>

\* const defaultLocation = { lat: 28.7041, lng: 77.1025 }
defaultLocation == [lat |-> 287041, lng |-> 771025]

\* locations the geolocate control reports; the second is the default anchor
Locations == { [lat |-> 129716, lng |-> 775946], defaultLocation }

Max(a, b) == IF a >= b THEN a ELSE b

\* JavaScript truthiness of a number-or-undefined value, and `a || b`
Truthy(v) == v # Undefined /\ v # Some(0)
OrElse(a, b) == IF Truthy(a) THEN a ELSE b

(***************************************************************************)
(* Initial phase and countdown of a signal (getInitialState,               *)
(* getInitialCountdown).                                                   *)
(***************************************************************************)
\* getInitialState starting the rotation at green
getInitialStateFromGreen(signalIndex) ==
    LET states == <<"green", "yellow", "red">>
    IN  states[(signalIndex % 3) + 1]

getInitialState(signalIndex) ==
    LET states == <<"red", "green", "yellow">>
    IN  states[(signalIndex % 3) + 1]

baseCountdowns(state) ==
    CASE state = "red"    -> 45
      [] state = "green"  -> 30
      [] state = "yellow" -> 6
      [] state = "walk"   -> 20

\* getInitialCountdown with the seed taken modulo one more than the range
getInitialCountdownWide(state, signalIndex) ==
    LET maxTime == baseCountdowns(state)
        minTime == Max(5, (maxTime * 2) \div 10)
        seed    == (signalIndex * 7 + 13) % (maxTime - minTime + 2)
    IN  minTime + seed

\* Math.floor(maxTime * 0.2): the double 0.2 is slightly above 1/5, and for
\* the four durations the product rounds to a value >= the exact fifth, so
\* the floor is that of the exact quotient.
getInitialCountdown(state, signalIndex) ==
    LET maxTime == baseCountdowns(state)
        minTime == Max(5, (maxTime * 2) \div 10)
        seed    == (signalIndex * 7 + 13) % (maxTime - minTime + 1)
    IN  minTime + seed

(***************************************************************************)
(* One tick of one signal: the callback updateSignalStates maps over the   *)
(* previous state.                                                         *)
(***************************************************************************)
\* `signal.completedCycles || 0`
completedCyclesOrZero(signal) ==
    IF signal.completedCycles # 0 THEN signal.completedCycles ELSE 0

\* redExpired with red's own duration given to green
redExpiredWrongDuration(signal) ==
    [signal EXCEPT !.currentState = "green",
                   !.countdown = 45,
                   !.pedestrianWalk = FALSE,
                   !.completedCycles = completedCyclesOrZero(signal)]

\* case 'red': Red (45s) -> Green (30s)
redExpired(signal) ==
    [signal EXCEPT !.currentState = "green",
                   !.countdown = 30,
                   !.pedestrianWalk = FALSE,
                   !.completedCycles = completedCyclesOrZero(signal)]

\* greenExpired with a yellow phase one second short
greenExpiredShortYellow(signal) ==
    [signal EXCEPT !.currentState = "yellow",
                   !.countdown = 5,
                   !.pedestrianWalk = FALSE,
                   !.completedCycles = completedCyclesOrZero(signal)]

\* case 'green': Green (30s) -> Yellow (6s)
greenExpired(signal) ==
    [signal EXCEPT !.currentState = "yellow",
                   !.countdown = 6,
                   !.pedestrianWalk = FALSE,
                   !.completedCycles = completedCyclesOrZero(signal)]

\* yellowExpired testing the cycle count before incrementing it
yellowExpiredTestFirst(signal) ==
    IF completedCyclesOrZero(signal) >= 2
    THEN [signal EXCEPT !.currentState = "walk",
                        !.countdown = 20,
                        !.pedestrianWalk = TRUE,
                        !.completedCycles = 0]
    ELSE [signal EXCEPT !.currentState = "red",
                        !.countdown = 45,
                        !.pedestrianWalk = FALSE,
                        !.completedCycles = completedCyclesOrZero(signal) + 1]

\* yellowExpired without the reset of completedCycles on entering walk
yellowExpiredNoReset(signal) ==
    LET newCompletedCycles == completedCyclesOrZero(signal) + 1
    IN  IF newCompletedCycles >= 2
        THEN [signal EXCEPT !.currentState = "walk",
                            !.countdown = 20,
                            !.pedestrianWalk = TRUE,
                            !.completedCycles = newCompletedCycles]
        ELSE [signal EXCEPT !.currentState = "red",
                            !.countdown = 45,
                            !.pedestrianWalk = FALSE,
                            !.completedCycles = newCompletedCycles]

\* yellowExpired with the threshold off by one (> 2)
yellowExpiredEveryThird(signal) ==
    LET newCompletedCycles == completedCyclesOrZero(signal) + 1
    IN  IF newCompletedCycles > 2
        THEN [signal EXCEPT !.currentState = "walk",
                            !.countdown = 20,
                            !.pedestrianWalk = TRUE,
                            !.completedCycles = 0]
        ELSE [signal EXCEPT !.currentState = "red",
                            !.countdown = 45,
                            !.pedestrianWalk = FALSE,
                            !.completedCycles = newCompletedCycles]

\* yellowExpired that does not raise the pedestrian flag on entering walk
yellowExpiredNoFlag(signal) ==
    LET newCompletedCycles == completedCyclesOrZero(signal) + 1
    IN  IF newCompletedCycles >= 2
        THEN [signal EXCEPT !.currentState = "walk",
                            !.countdown = 20,
                            !.pedestrianWalk = FALSE,
                            !.completedCycles = 0]
        ELSE [signal EXCEPT !.currentState = "red",
                            !.countdown = 45,
                            !.pedestrianWalk = FALSE,
                            !.completedCycles = newCompletedCycles]

\* yellowExpired with the 30-second walk of the README
yellowExpiredWalkThirty(signal) ==
    LET newCompletedCycles == completedCyclesOrZero(signal) + 1
    IN  IF newCompletedCycles >= 2
        THEN [signal EXCEPT !.currentState = "walk",
                            !.countdown = 30,
                            !.pedestrianWalk = TRUE,
                            !.completedCycles = 0]
        ELSE [signal EXCEPT !.currentState = "red",
                            !.countdown = 45,
                            !.pedestrianWalk = FALSE,
                            !.completedCycles = newCompletedCycles]

\* case 'yellow': count the completed cycle, then walk after 2 cycles, else red
yellowExpired(signal) ==
    LET newCompletedCycles == completedCyclesOrZero(signal) + 1
    IN  IF newCompletedCycles >= 2
        THEN [signal EXCEPT !.currentState = "walk",
                            !.countdown = 20,
                            !.pedestrianWalk = TRUE,
                            !.completedCycles = 0]
        ELSE [signal EXCEPT !.currentState = "red",
                            !.countdown = 45,
                            !.pedestrianWalk = FALSE,
                            !.completedCycles = newCompletedCycles]

\* walkExpired going on to green instead of red
walkExpiredToGreen(signal) ==
    [signal EXCEPT !.currentState = "green",
                   !.countdown = 30,
                   !.pedestrianWalk = FALSE,
                   !.completedCycles = completedCyclesOrZero(signal)]

\* walkExpired counting the walk as a completed cycle
walkExpiredCountsCycle(signal) ==
    [signal EXCEPT !.currentState = "red",
                   !.countdown = 45,
                   !.pedestrianWalk = FALSE,
                   !.completedCycles = 1]

\* case 'walk': Walk (20s) -> Red (45s)
walkExpired(signal) ==
    [signal EXCEPT !.currentState = "red",
                   !.countdown = 45,
                   !.pedestrianWalk = FALSE,
                   !.completedCycles = completedCyclesOrZero(signal)]

\* countDown without the branch that keeps the pedestrian flag during walk
countDownDropsWalk(signal) ==
    [signal EXCEPT !.countdown = signal.countdown - 1,
                   !.pedestrianWalk = FALSE,
                   !.completedCycles = completedCyclesOrZero(signal)]

\* the else branch: the countdown has not run out
countDown(signal) ==
    [signal EXCEPT !.countdown = signal.countdown - 1,
                   !.pedestrianWalk = (signal.currentState = "walk"),
                   !.completedCycles = completedCyclesOrZero(signal)]

\* phaseExpired with the switch lacking its 'walk' case
phaseExpiredNoWalkCase(signal) ==
    CASE signal.currentState = "red"    -> redExpired(signal)
      [] signal.currentState = "green"  -> greenExpired(signal)
      [] signal.currentState = "yellow" -> yellowExpired(signal)
      [] OTHER -> [signal EXCEPT !.countdown = signal.countdown - 1,
                                 !.pedestrianWalk = FALSE,
                                 !.completedCycles = completedCyclesOrZero(signal)]

\* the switch on signal.currentState; a value outside the four cases falls
\* through with the decremented countdown
phaseExpired(signal) ==
    CASE signal.currentState = "red"    -> redExpired(signal)
      [] signal.currentState = "green"  -> greenExpired(signal)
      [] signal.currentState = "yellow" -> yellowExpired(signal)
      [] signal.currentState = "walk"   -> walkExpired(signal)
      [] OTHER -> [signal EXCEPT !.countdown = signal.countdown - 1,
                                 !.pedestrianWalk = FALSE,
                                 !.completedCycles = completedCyclesOrZero(signal)]

\* advanceSignal changing phase only once the countdown has gone below 0
advanceSignalLate(signal) ==
    LET newCountdown == signal.countdown - 1
    IN  IF newCountdown < 0 THEN phaseExpired(signal) ELSE countDown(signal)

advanceSignal(signal) ==
    LET newCountdown == signal.countdown - 1
    IN  IF newCountdown <= 0 THEN phaseExpired(signal) ELSE countDown(signal)

\* prev.map(signal => ...)
\* advanceAll leaving every second signal as it was
advanceAllOddOnly(signals) ==
    [i \in 1..Len(signals) |->
        IF i % 2 = 1 THEN advanceSignal(signals[i]) ELSE signals[i]]

\* advanceAll giving every signal the countdown of the first
advanceAllCoupled(signals) ==
    [i \in 1..Len(signals) |->
        [advanceSignal(signals[i]) EXCEPT
            !.countdown = advanceSignal(signals[1]).countdown]]

\* advanceAll returning the signals in reverse order
advanceAllReversed(signals) ==
    [i \in 1..Len(signals) |-> advanceSignal(signals[Len(signals) + 1 - i])]

\* advanceAll putting a signal into a registry that holds none
advanceAllSeedsEmpty(signals) ==
    IF Len(signals) = 0
    THEN <<[id |-> <<"demo_signal", 1>>, lat |-> 0, lng |-> 0,
            name |-> <<"Traffic Signal", 1>>, currentState |-> "red",
            countdown |-> 45, pedestrianWalk |-> FALSE, cycleCount |-> 0,
            completedCycles |-> 0]>>
    ELSE [i \in 1..Len(signals) |-> advanceSignal(signals[i])]

advanceAll(signals) == [i \in 1..Len(signals) |-> advanceSignal(signals[i])]

(***************************************************************************)
(* Signal factories.                                                       *)
(***************************************************************************)
\* demoSignal numbering on from the signals the registry already holds
demoSignalAfterRegistry(location, i) ==
    LET initialState == getInitialState(i + Len(trafficSignals))
    IN  [id              |-> <<"demo_signal", i + 1 + Len(trafficSignals)>>,
         lat             |-> location.lat + (IF i % 2 = 0 THEN 10 ELSE -10) * (i + 1),
         lng             |-> location.lng + (IF i < 2 THEN 10 ELSE -10) * (i + 1),
         name            |-> <<"Traffic Signal", i + 1>>,
         currentState    |-> initialState,
         countdown       |-> getInitialCountdown(initialState, i + Len(trafficSignals)),
         pedestrianWalk  |-> FALSE,
         cycleCount      |-> 0,
         completedCycles |-> 0]

\* the signal createDemoSignals builds in iteration i (0-based)
demoSignal(location, i) ==
    LET initialState == getInitialState(i)
    IN  [id              |-> <<"demo_signal", i + 1>>,
         lat             |-> location.lat + (IF i % 2 = 0 THEN 10 ELSE -10) * (i + 1),
         lng             |-> location.lng + (IF i < 2 THEN 10 ELSE -10) * (i + 1),
         name            |-> <<"Traffic Signal", i + 1>>,
         currentState    |-> initialState,
         countdown       |-> getInitialCountdown(initialState, i),
         pedestrianWalk  |-> FALSE,
         cycleCount      |-> 0,
         completedCycles |-> 0]

\* for (let i = 0; i < 4; i++) demoSignals.push(signal)
demoSignals(location) == [k \in 1..4 |-> demoSignal(location, k - 1)]

\* the signal enhanceAllSignals maps the candidate at 0-based `index` to
enhancedSignal(signal, index) ==
    LET initialState == getInitialState(index)
    IN  [id              |-> IF signal.id # Undefined THEN signal.id
                             ELSE <<"global_signal", index>>,
         lat             |-> OrElse(OrElse(signal.lat, signal.geometryLat), signal.latlngLat),
         lng             |-> OrElse(OrElse(signal.lng, signal.geometryLng), signal.latlngLng),
         name            |-> IF signal.name # Undefined THEN signal.name
                             ELSE IF signal.propertiesName # Undefined
                                  THEN signal.propertiesName
                                  ELSE <<"Traffic Signal", index + 1>>,
         currentState    |-> initialState,
         countdown       |-> getInitialCountdown(initialState, index),
         pedestrianWalk  |-> FALSE,
         cycleCount      |-> 0,
         completedCycles |-> 0]

\* .filter(signal => signal.lat && signal.lng)
hasPosition(signal) == Truthy(signal.lat) /\ Truthy(signal.lng)

\* signalData.map(...).filter(...); the survivors' lat and lng are numbers
enhancedSignals(signalData) ==
    LET mapped == [k \in 1..Len(signalData) |-> enhancedSignal(signalData[k], k - 1)]
        kept   == SelectSeq(mapped, hasPosition)
    IN  [k \in 1..Len(kept) |-> [kept[k] EXCEPT !.lat = kept[k].lat[1],
                                                !.lng = kept[k].lng[1]]]

(***************************************************************************)
(* Raw candidates the discovery source may supply.                         *)
(***************************************************************************)
\* a rendered map feature: position in geometry.coordinates, no id
featureCandidate ==
    [id |-> Undefined, lat |-> Undefined, lng |-> Undefined,
     geometryLat |-> Some(129730), geometryLng |-> Some(775960),
     latlngLat |-> Undefined, latlngLng |-> Undefined,
     name |-> Undefined, propertiesName |-> Undefined]

\* a record without any coordinate
bareCandidate ==
    [id |-> Undefined, lat |-> Undefined, lng |-> Undefined,
     geometryLat |-> Undefined, geometryLng |-> Undefined,
     latlngLat |-> Undefined, latlngLng |-> Undefined,
     name |-> Undefined, propertiesName |-> <<"poi", 7>>]

\* the icon findAllTrafficSignalIcons pushes when it has already pushed k:
\* id global_signal_k, the position the map unprojects its centre to
iconCandidateAt(k) ==
    [id |-> <<"global_signal", k>>, lat |-> Some(129720 + k), lng |-> Some(775950 + k),
     geometryLat |-> Undefined, geometryLng |-> Undefined,
     latlngLat |-> Undefined, latlngLng |-> Undefined,
     name |-> <<"Traffic Signal", k + 1>>, propertiesName |-> Undefined]

\* a rendered map feature that carries a feature id of its own
identifiedCandidate ==
    [id |-> <<"feature", 17>>, lat |-> Undefined, lng |-> Undefined,
     geometryLat |-> Some(129740), geometryLng |-> Some(775970),
     latlngLat |-> Undefined, latlngLng |-> Undefined,
     name |-> Undefined, propertiesName |-> Undefined]

\* a point of interest on the equator: latitude 0
equatorCandidate ==
    [id |-> Undefined, lat |-> Some(0), lng |-> Some(775980),
     geometryLat |-> Undefined, geometryLng |-> Undefined,
     latlngLat |-> Undefined, latlngLng |-> Undefined,
     name |-> Undefined, propertiesName |-> Undefined]

\* what the map-feature and POI queries may return
Candidates == {featureCandidate, bareCandidate}
FactoryCandidates == Candidates \cup {identifiedCandidate}
\* what the POI query may return when the map shows the equator
PoiCandidates == {featureCandidate, equatorCandidate}

\* the results of the DOM search: the icons in the order found
iconBatches(longest) ==
    { [k \in 1..n |-> iconCandidateAt(k - 1)] : n \in 1..longest }

\* the results of the map-feature query and of the POI query: whatever the
\* map returns, in its order (the same feature may be returned twice)
featureBatches(candidates, longest) ==
    UNION { [1..n -> candidates] : n \in 1..longest }

\* the non-empty batches a detection method may hand to enhanceAllSignals
Batches == iconBatches(MaxBatch) \cup featureBatches(Candidates, MaxBatch)

\* the batches of the factory specification: longer ones
FactoryBatches ==
    iconBatches(MaxIcons)
        \cup featureBatches(FactoryCandidates, MaxDense)
        \cup featureBatches(PoiCandidates, MaxPoi)

(***************************************************************************)
(* History: what each signal has gone through since it was created.        *)
(***************************************************************************)
\* a signal at the start of a red phase with no completed cycle
Fresh(signal) ==
    /\ signal.currentState = "red"
    /\ signal.countdown = 45
    /\ signal.completedCycles = 0

\* the observer of a signal that has not been at a fresh start
NoObservation ==
    [yellowExits |-> 0, stopwatch |-> -1,
     inRed |-> 0, inGreen |-> 0, inYellow |-> 0, inWalk |-> 0,
     walksEntered |-> 0, walksCompleted |-> 0,
     walkTicks |-> 0]

\* the observer of a signal standing at a fresh start
StartObservation(o) ==
    [yellowExits |-> o.yellowExits, stopwatch |-> 0,
     inRed |-> 0, inGreen |-> 0, inYellow |-> 0, inWalk |-> 0,
     walksEntered |-> 0, walksCompleted |-> 0,
     walkTicks |-> o.walkTicks]

One(b) == IF b THEN 1 ELSE 0

\* a tick took the signal from `before` to `after`: count a yellow exit and a
\* tick that found the signal in walk; the stopwatch restarts when the signal
\* leaves a fresh start and otherwise runs
ObserveTick(o, before, after) ==
    LET exits == o.yellowExits
                   + One(before.currentState = "yellow" /\ before.countdown - 1 <= 0)
        base  == IF Fresh(before) THEN StartObservation(o) ELSE o
        walks == o.walkTicks + One(before.currentState = "walk")
    IN  IF base.stopwatch >= 0
        THEN [yellowExits    |-> exits,
              stopwatch      |-> base.stopwatch + 1,
              inRed          |-> base.inRed + One(before.currentState = "red"),
              inGreen        |-> base.inGreen + One(before.currentState = "green"),
              inYellow       |-> base.inYellow + One(before.currentState = "yellow"),
              inWalk         |-> base.inWalk + One(before.currentState = "walk"),
              walksEntered   |-> base.walksEntered
                                   + One(before.currentState # "walk"
                                         /\ after.currentState = "walk"),
              walksCompleted |-> base.walksCompleted
                                   + One(before.currentState = "walk"
                                         /\ after.currentState # "walk"),
              walkTicks      |-> walks]
        ELSE IF Fresh(after)
             THEN [StartObservation(o) EXCEPT !.yellowExits = exits,
                                              !.walkTicks = walks]
             ELSE [o EXCEPT !.yellowExits = exits, !.walkTicks = walks]

ObserveNew(signals) ==
    [i \in 1..Len(signals) |->
        IF Fresh(signals[i]) THEN StartObservation(NoObservation) ELSE NoObservation]

(***************************************************************************)
(* The timer effect (useEffect with dependency trafficSignals.length > 0). *)
(***************************************************************************)
\* the overlay component is mounted
Live == overlay = "mounted"

\* the dependency array of the timer effect for a render that sees `signals`
\* restarting variant: the effect depends on the signal set itself
timerDependencyOnSet(signals) == <<Len(signals) > 0, signals>>

\* [trafficSignals.length > 0]; the second component is unused
timerDependency(signals) == <<Len(signals) > 0, <<>>>>

\* the last run of the timer effect got past its early return and so
\* returned a cleanup function
HasCleanup == timerDep # <<>> /\ timerDep[1]

\* cleanup variant that clears nothing
timerCleanupNothing(intervals) == intervals

\* the cleanup: if (intervalRef.current) clearInterval(intervalRef.current)
timerCleanup(intervals) ==
    IF intervalRef # 0 THEN intervals \ {intervalRef} ELSE intervals

(***************************************************************************)
(* Operations.                                                             *)
(***************************************************************************)
\* Install appending the new set to the one held
InstallAppending(signals) ==
    /\ trafficSignals' = trafficSignals \o signals
    /\ ticks' = 0
    /\ prev' = <<>>
    /\ obs' = ObserveNew(trafficSignals \o signals)
    /\ tickHandle' = 0
    /\ runningAtInstall' = activeIntervals
    /\ installed' = signals

\* setTrafficSignals(signals) with a freshly built set
Install(signals) ==
    /\ trafficSignals' = signals
    /\ ticks' = 0
    /\ prev' = <<>>
    /\ obs' = ObserveNew(signals)
    /\ tickHandle' = 0
    /\ runningAtInstall' = activeIntervals
    /\ installed' = signals

\* the colour of the signal circle
getSignalBackgroundColor(state) ==
    CASE state = "red" -> "#FF3B30" [] state = "yellow" -> "#FF9500"
      [] state = "green" -> "#30D158" [] state = "walk" -> "#007AFF"

\* the icon in the signal circle
getSignalIcon(state) ==
    CASE state = "red" -> "square" [] state = "yellow" -> "triangle"
      [] state = "green" -> "arrow" [] state = "walk" -> "walker"

\* what the marker element of a signal displays: the circle's colour and
\* icon, the timer text (the decimal digits of the countdown, kept as the
\* number) and whether the element holds a walk dot
signalElement(signal) ==
    [id         |-> signal.id,
     background |-> getSignalBackgroundColor(signal.currentState),
     icon       |-> getSignalIcon(signal.currentState),
     timer      |-> signal.countdown,
     walkDot    |-> signal.pedestrianWalk]

\* signals.map(signal => ...): the elements of one marker group
signalElements(signals) == [k \in 1..Len(signals) |-> signalElement(signals[k])]

\* trafficSignals.find(s => s.id === markerSignal.id): the position of the
\* first signal with the id, 0 if there is none
findSignal(signals, id) ==
    LET matches == { i \in 1..Len(signals) : signals[i].id = id }
    IN  IF matches = {} THEN 0
        ELSE CHOOSE i \in matches : \A j \in matches : i <= j

\* updateSignalVisuals as the visuals effect runs it after a render that
\* sees the registry value `signals` and the marker group `markers`: the
\* elements of that group are repainted from the signal with their id;
\* every other element on the map is left as it is
updateSignalVisuals(elements, signals, markers) ==
    IF Len(signals) = 0 \/ markers = 0 THEN elements
    ELSE [group \in DOMAIN elements |->
            IF group # markers THEN elements[group]
            ELSE [m \in 1..Len(elements[group]) |->
                    LET found == findSignal(signals, elements[group][m].id)
                    IN  IF found = 0 THEN elements[group][m]
                        ELSE signalElement(signals[found])]]

\* addEnhancedSignalsToMap: a marker per signal is added to the map, on top
\* of the markers in `onMap`, and setSignalMarkers is given the new markers
addEnhancedSignalsToMap(onMap, signals) ==
    /\ nextMarker <= MaxMarkers
    /\ mapMarkers' = onMap \cup {nextMarker}
    /\ shown' = [group \in onMap \cup {nextMarker} |->
                    IF group = nextMarker THEN signalElements(signals)
                    ELSE shown[group]]
    /\ signalMarkers' = nextMarker
    /\ nextMarker' = nextMarker + 1

\* signalMarkers.forEach(({ marker }) => marker.remove()) as the cleanup
\* closure of the [map, currentLocation] effect runs it
markersAfterCleanup == mapMarkers \ {cleanupMarkers}

\* the anchor fetchTrafficSignals hands to createDemoSignals
seedLocation(location) ==
    IF location # NoLocation THEN location[1] ELSE defaultLocation

Init ==
    /\ trafficSignals = <<>>
    /\ currentLocation = NoLocation
    /\ pendingDetections = 0
    /\ overlay = "initial"
    /\ intervalRef = 0
    /\ activeIntervals = {}
    /\ nextHandle = 1
    /\ timerDep = <<>>
    /\ mapMarkers = {}
    /\ shown = <<>>
    /\ signalMarkers = 0
    /\ cleanupMarkers = 0
    /\ nextMarker = 1
    /\ ticks = 0
    /\ lastOp = "init"
    /\ prev = <<>>
    /\ obs = <<>>
    /\ tickHandle = 0
    /\ runningAtInstall = {}
    /\ firstDemo = <<>>
    /\ installed = <<>>
    /\ lastBatch = <<>>

\* The map has loaded and no location has been reported: MapContainer does
\* not render the overlay (and the [map, currentLocation] effect returns
\* before fetchTrafficSignals when currentLocation is absent).
renderWithoutLocation ==
    /\ lastBatch' = <<>>
    /\ overlay = "initial"
    /\ currentLocation = NoLocation
    /\ lastOp' = "noLocation"
    /\ UNCHANGED <<trafficSignals, currentLocation, pendingDetections, overlay,
                   intervalRef, activeIntervals, nextHandle, timerDep,
                   mapMarkers, shown, signalMarkers, cleanupMarkers, nextMarker,
                   ticks, prev, obs, tickHandle, runningAtInstall, firstDemo,
                   installed>>

\* The [map, currentLocation] effect runs for a location reported by the
\* geolocate control (every report is a new object, so the effect re-runs):
\* the previous run's cleanup clears the registry and removes the markers
\* its closure sees, fetchTrafficSignals installs the demo signals around
\* the location, adds their markers and schedules a detection.
\* The state updates of one effect flush are batched, so the registry goes
\* from the old set to the demo set in one step.  On mount the timer effect
\* runs in the same flush, for the first render's empty registry, and
\* returns early; on a location change its dependency is unchanged and it
\* does not run.
LocationEffect(location) ==
    /\ lastBatch' = <<>>
    /\ overlay \in {"initial", "mounted"}
    /\ pendingDetections < MaxPending
    /\ currentLocation' = Some(location)
    /\ overlay' = "mounted"
    /\ Install(demoSignals(seedLocation(Some(location))))
    /\ addEnhancedSignalsToMap(IF Live THEN markersAfterCleanup ELSE mapMarkers,
                               demoSignals(seedLocation(Some(location))))
    /\ cleanupMarkers' = signalMarkers
    /\ pendingDetections' = pendingDetections + 1
    /\ timerDep' = IF Live THEN timerDep ELSE timerDependency(trafficSignals)
    /\ lastOp' = IF Live THEN "locationChange" ELSE "mount"
    /\ firstDemo' = IF firstDemo = <<>>
                    THEN <<[location |-> location, signals |-> demoSignals(location)]>>
                    ELSE firstDemo
    /\ UNCHANGED <<intervalRef, activeIntervals, nextHandle>>

\* timer effect variant: runs after every change of the signal set and starts
\* an interval without clearing any
timerEffectLeaky ==
    /\ lastBatch' = <<>>
    /\ Live
    /\ timerDep # timerDependencyOnSet(trafficSignals)
    /\ nextHandle <= MaxHandles
    /\ IF Len(trafficSignals) = 0
       THEN UNCHANGED <<activeIntervals, intervalRef, nextHandle>>
       ELSE /\ activeIntervals' = activeIntervals \cup {nextHandle}
            /\ intervalRef' = nextHandle
            /\ nextHandle' = nextHandle + 1
    /\ timerDep' = timerDependencyOnSet(trafficSignals)
    /\ lastOp' = "timerEffect"
    /\ UNCHANGED <<trafficSignals, currentLocation, pendingDetections, overlay,
                   mapMarkers, shown, signalMarkers, cleanupMarkers, nextMarker,
                   ticks, prev, obs, tickHandle, runningAtInstall, firstDemo,
                   installed>>

\* The timer effect runs after a render whose dependency value differs from
\* the one it last ran with: the cleanup of the last run (if it returned
\* one), then the body: return early on an empty registry, else clear the
\* interval in intervalRef and start a new one.
timerEffect ==
    /\ lastBatch' = <<>>
    /\ Live
    /\ timerDep # timerDependency(trafficSignals)
    /\ nextHandle <= MaxHandles
    /\ LET cleaned == IF HasCleanup THEN timerCleanup(activeIntervals)
                      ELSE activeIntervals
       IN  IF Len(trafficSignals) = 0
           THEN /\ activeIntervals' = cleaned
                /\ UNCHANGED <<intervalRef, nextHandle>>
           ELSE /\ activeIntervals' = (cleaned \ {intervalRef}) \cup {nextHandle}
                /\ intervalRef' = nextHandle
                /\ nextHandle' = nextHandle + 1
    /\ timerDep' = timerDependency(trafficSignals)
    /\ lastOp' = "timerEffect"
    /\ UNCHANGED <<trafficSignals, currentLocation, pendingDetections, overlay,
                   mapMarkers, shown, signalMarkers, cleanupMarkers, nextMarker,
                   ticks, prev, obs, tickHandle, runningAtInstall, firstDemo,
                   installed>>

\* tick variant whose callback maps over the set its closure captured when
\* the set was installed
tickWithinFromCaptured(limit) ==
    /\ lastBatch' = <<>>
    /\ ticks < limit
    /\ \E handle \in activeIntervals : tickHandle' = handle
    /\ Live
    /\ trafficSignals' = advanceAll(installed)
    /\ shown' = updateSignalVisuals(shown, advanceAll(installed), signalMarkers)
    /\ prev' = trafficSignals
    /\ ticks' = ticks + 1
    /\ obs' = obs
    /\ lastOp' = "updateSignalStates"
    /\ UNCHANGED <<currentLocation, pendingDetections, overlay, intervalRef,
                   activeIntervals, nextHandle, timerDep,
                   mapMarkers, signalMarkers, cleanupMarkers, nextMarker,
                   runningAtInstall, firstDemo, installed>>

\* The callback of an active interval: setTrafficSignals(prev => prev.map(...)).
\* The update is applied to the latest registry value, also when several
\* firings are processed before the next render.
\* (React ignores the update when the component is unmounted.)
tickWithin(limit) ==
    /\ lastBatch' = <<>>
    /\ ticks < limit
    /\ \E handle \in activeIntervals : tickHandle' = handle
    /\ IF Live
       THEN /\ trafficSignals' = advanceAll(trafficSignals)
            /\ prev' = trafficSignals
            /\ ticks' = ticks + 1
            /\ obs' = [i \in 1..Len(trafficSignals) |->
                          ObserveTick(obs[i], trafficSignals[i],
                                      advanceSignal(trafficSignals[i]))]
            /\ shown' = updateSignalVisuals(shown, advanceAll(trafficSignals),
                                           signalMarkers)
            /\ lastOp' = "updateSignalStates"
       ELSE /\ UNCHANGED <<trafficSignals, prev, obs, shown>>
            /\ ticks' = ticks + 1
            /\ lastOp' = "ignoredTick"
    /\ UNCHANGED <<currentLocation, pendingDetections, overlay, intervalRef,
                   activeIntervals, nextHandle, timerDep,
                   mapMarkers, signalMarkers, cleanupMarkers, nextMarker,
                   runningAtInstall, firstDemo, installed>>

updateSignalStates == tickWithin(MaxTicks)

\* detection variant that installs the adapted set also when it is empty
detectExistingSignalsInstallsEmpty(signalData) ==
    /\ lastBatch' = signalData
    /\ pendingDetections > 0
    /\ Live
    /\ pendingDetections' = pendingDetections - 1
    /\ Install(enhancedSignals(signalData))
    /\ addEnhancedSignalsToMap(mapMarkers, enhancedSignals(signalData))
    /\ lastOp' = IF Len(enhancedSignals(signalData)) > 0
                 THEN "enhanceAllSignals" ELSE "retryDetection"
    /\ UNCHANGED <<currentLocation, overlay, intervalRef, activeIntervals,
                   nextHandle, timerDep, cleanupMarkers, firstDemo>>

\* A scheduled detectExistingSignals run finds candidates and hands them to
\* enhanceAllSignals: survivors are installed, their markers are added and
\* the chain ends; with no survivor another run is scheduled and nothing
\* else changes.
\* (After the unmount the map has been removed and React ignores
\* setTrafficSignals and setSignalMarkers.)
detectExistingSignals(signalData) ==
    /\ lastBatch' = signalData
    /\ pendingDetections > 0
    /\ LET enhanced == enhancedSignals(signalData)
       IN  IF Len(enhanced) > 0
           THEN /\ pendingDetections' = pendingDetections - 1
                /\ IF Live
                   THEN /\ Install(enhanced)
                        /\ addEnhancedSignalsToMap(mapMarkers, enhanced)
                   ELSE UNCHANGED <<trafficSignals, ticks, prev, obs,
                                    tickHandle, runningAtInstall, installed,
                                    mapMarkers, shown, signalMarkers, nextMarker>>
                /\ lastOp' = "enhanceAllSignals"
           ELSE /\ UNCHANGED <<trafficSignals, ticks, prev, obs, pendingDetections,
                               tickHandle, runningAtInstall, installed,
                               mapMarkers, shown, signalMarkers, nextMarker>>
                /\ lastOp' = "retryDetection"
    /\ UNCHANGED <<currentLocation, overlay, intervalRef, activeIntervals,
                   nextHandle, timerDep, cleanupMarkers, firstDemo>>

\* A scheduled detectExistingSignals run finds nothing (or throws): it
\* schedules the next run.
detectNothing ==
    /\ lastBatch' = <<>>
    /\ pendingDetections > 0
    /\ lastOp' = "retryDetection"
    /\ UNCHANGED <<trafficSignals, currentLocation, pendingDetections, overlay,
                   intervalRef, activeIntervals, nextHandle, timerDep,
                   mapMarkers, shown, signalMarkers, cleanupMarkers, nextMarker,
                   ticks, prev, obs, tickHandle, runningAtInstall, firstDemo,
                   installed>>

\* unmount variant whose cleanup leaves the registry as it is
clearSignalsFromMapKeepsSignals ==
    /\ lastBatch' = <<>>
    /\ Live
    /\ overlay' = "unmounted"
    /\ currentLocation' = NoLocation
    /\ activeIntervals' = IF HasCleanup THEN timerCleanup(activeIntervals)
                          ELSE activeIntervals
    /\ timerDep' = <<>>
    /\ mapMarkers' = {}
    /\ shown' = <<>>
    /\ signalMarkers' = 0
    /\ cleanupMarkers' = 0
    /\ tickHandle' = 0
    /\ runningAtInstall' = {}
    /\ lastOp' = "clearSignalsFromMap"
    /\ UNCHANGED <<trafficSignals, ticks, prev, obs, installed, nextMarker,
                   pendingDetections, intervalRef, nextHandle, firstDemo>>

\* The overlay unmounts, which it does only with MapContainer: React runs
\* the cleanups of the effects in one flush: clearSignalsFromMap of the
\* [map, currentLocation] effect, the cleanup of the timer effect, and
\* MapContainer's map.remove(), which takes every marker with the map.
clearSignalsFromMap ==
    /\ lastBatch' = <<>>
    /\ Live
    /\ overlay' = "unmounted"
    /\ currentLocation' = NoLocation
    /\ trafficSignals' = <<>>
    /\ activeIntervals' = IF HasCleanup THEN timerCleanup(activeIntervals)
                          ELSE activeIntervals
    /\ timerDep' = <<>>
    /\ mapMarkers' = {}
    /\ shown' = <<>>
    /\ signalMarkers' = 0
    /\ cleanupMarkers' = 0
    /\ ticks' = 0
    /\ prev' = <<>>
    /\ obs' = <<>>
    /\ installed' = <<>>
    /\ tickHandle' = 0
    /\ runningAtInstall' = {}
    /\ lastOp' = "clearSignalsFromMap"
    /\ UNCHANGED <<pendingDetections, intervalRef, nextHandle, nextMarker, firstDemo>>

Next ==
    \/ renderWithoutLocation
    \/ \E location \in Locations : LocationEffect(location)
    \/ timerEffect
    \/ updateSignalStates
    \/ \E signalData \in Batches : detectExistingSignals(signalData)
    \/ detectNothing
    \/ clearSignalsFromMap

Spec == Init /\ [][Next]_vars

\* the overlay is rendered for the first reported location
mountOverlay(location) ==
    /\ overlay = "initial"
    /\ LocationEffect(location)

\* The factories under long detection batches: one mount, a few ticks.
FactoryNext ==
    \/ \E location \in Locations : mountOverlay(location)
    \/ timerEffect
    \/ tickWithin(FactoryTicks)
    \/ \E signalData \in FactoryBatches : detectExistingSignals(signalData)
    \/ detectNothing
    \/ clearSignalsFromMap

FactorySpec == Init /\ [][FactoryNext]_vars

TypeOK ==
    /\ Len(obs) = Len(trafficSignals)
    /\ \A i \in 1..Len(trafficSignals) : trafficSignals[i].currentState \in Phases
    /\ ticks \in 0..Max(MaxTicks, ClockTicks)
    /\ pendingDetections \in 0..MaxPending
    /\ overlay \in {"initial", "mounted", "unmounted"}
    /\ intervalRef \in 0..MaxHandles
    /\ activeIntervals \subseteq 1..MaxHandles
    /\ nextHandle \in 1..(MaxHandles + 1)
    /\ mapMarkers \subseteq 1..MaxMarkers
    /\ signalMarkers \in 0..MaxMarkers
    /\ cleanupMarkers \in 0..MaxMarkers
    /\ nextMarker \in 1..(MaxMarkers + 1)

(***************************************************************************)
(* Properties of the phase clock.                                          *)
(***************************************************************************)
\* the last step was a tick: prev[i] is signal i before it, trafficSignals[i] after
Ticked == lastOp = "updateSignalStates"

Signals == 1..Len(trafficSignals)

\* the tick found the countdown of `before` run out (countdown - 1 <= 0)
RanOut(before) == before.countdown - 1 <= 0

\* the fixed duration of a phase
PhaseDuration(phase) ==
    CASE phase = "red" -> 45 [] phase = "green" -> 30
      [] phase = "yellow" -> 6 [] phase = "walk" -> 20

\* C1: a tick that finds countdown - 1 <= 0 takes red to green with countdown
\* 30, green to yellow with countdown 6, walk to red with countdown 45 and
\* pedestrianWalk false, and every phase to one of the four phases.
C1_ExpiredPhaseSuccessor ==
    Ticked =>
      \A i \in Signals :
        LET before == prev[i]
            after  == trafficSignals[i]
        IN  RanOut(before) =>
              /\ after.currentState \in Phases
              /\ after.currentState # before.currentState
              /\ before.currentState = "red" =>
                    after.currentState = "green" /\ after.countdown = 30
              /\ before.currentState = "green" =>
                    after.currentState = "yellow" /\ after.countdown = 6
              /\ before.currentState = "walk" =>
                    /\ after.currentState = "red"
                    /\ after.countdown = 45
                    /\ after.pedestrianWalk = FALSE

\* a tick has taken a signal out of walk (countdown 1) into red
C1_Witness ==
    /\ Ticked
    /\ \E i \in Signals :
          /\ prev[i].currentState = "walk"
          /\ prev[i].countdown = 1
          /\ trafficSignals[i].currentState = "red"

\* C2: a tick that finds a yellow signal's countdown - 1 <= 0 increments
\* completedCycles; at 2 or more the signal becomes walk with countdown 20,
\* pedestrianWalk true and completedCycles 0, otherwise red with countdown 45,
\* pedestrianWalk false and the incremented completedCycles.
C2_YellowExit ==
    Ticked =>
      \A i \in Signals :
        LET before == prev[i]
            after  == trafficSignals[i]
            incremented == before.completedCycles + 1
        IN  before.currentState = "yellow" /\ RanOut(before) =>
              IF incremented >= 2
              THEN /\ after.currentState = "walk"
                   /\ after.countdown = 20
                   /\ after.pedestrianWalk = TRUE
                   /\ after.completedCycles = 0
              ELSE /\ after.currentState = "red"
                   /\ after.countdown = 45
                   /\ after.pedestrianWalk = FALSE
                   /\ after.completedCycles = incremented

\* (yellow, countdown 1, completedCycles 1) has ticked to walk
C2_Witness ==
    /\ Ticked
    /\ \E i \in Signals :
          /\ prev[i].currentState = "yellow"
          /\ prev[i].countdown = 1
          /\ prev[i].completedCycles = 1
          /\ trafficSignals[i].currentState = "walk"

\* C3: a tick that finds countdown - 1 > 0 keeps the phase and completedCycles,
\* sets the countdown to countdown - 1 and pedestrianWalk to (phase = walk); a
\* tick that finds countdown - 1 <= 0 resets the countdown to the fixed duration
\* of the phase it enters.
C3_CountdownStep ==
    Ticked =>
      \A i \in Signals :
        LET before == prev[i]
            after  == trafficSignals[i]
        IN  IF before.countdown - 1 > 0
            THEN /\ after.currentState = before.currentState
                 /\ after.completedCycles = before.completedCycles
                 /\ after.countdown = before.countdown - 1
                 /\ after.pedestrianWalk = (before.currentState = "walk")
            ELSE after.countdown = PhaseDuration(after.currentState)

\* a tick has counted a walk signal down without leaving walk
C3_Witness ==
    /\ Ticked
    /\ \E i \in Signals :
          /\ prev[i].currentState = "walk"
          /\ prev[i].countdown > 1
          /\ trafficSignals[i].countdown = prev[i].countdown - 1

\* C4: in every reachable registry state every signal has pedestrianWalk true
\* if and only if its phase is walk.
C4_PedestrianFlag ==
    \A i \in Signals :
      trafficSignals[i].pedestrianWalk = (trafficSignals[i].currentState = "walk")

\* a signal in the middle of its walk phase, reached by ticks
C4_Witness ==
    /\ Ticked
    /\ \E i \in Signals :
          /\ trafficSignals[i].currentState = "walk"
          /\ trafficSignals[i].countdown < 20
          /\ trafficSignals[i].pedestrianWalk

\* C5: counting a signal's yellow exits from its creation, the 2nd, 4th, ...
\* lead to walk and the 1st, 3rd, ... lead to red.
C5_WalkEverySecondYellowExit ==
    Ticked =>
      \A i \in Signals :
        prev[i].currentState = "yellow" /\ RanOut(prev[i]) =>
          IF obs[i].yellowExits % 2 = 0
          THEN trafficSignals[i].currentState = "walk"
          ELSE trafficSignals[i].currentState = "red"

\* a signal has made its 3rd yellow exit (to red) after its 2nd (to walk)
C5_Witness ==
    /\ Ticked
    /\ \E i \in Signals :
          /\ prev[i].currentState = "yellow"
          /\ RanOut(prev[i])
          /\ obs[i].yellowExits = 3
          /\ trafficSignals[i].currentState = "red"

\* C6: 81 ticks after a signal was at (red, countdown 45, completedCycles 0)
\* it is at red with countdown 45 and completedCycles 1, having spent 45 ticks
\* in red, 30 in green and 6 in yellow.
C6_CycleLaw ==
    \A i \in Signals :
      obs[i].stopwatch = 81 =>
        /\ trafficSignals[i].currentState = "red"
        /\ trafficSignals[i].countdown = 45
        /\ trafficSignals[i].completedCycles = 1
        /\ obs[i].inRed = 45
        /\ obs[i].inGreen = 30
        /\ obs[i].inYellow = 6
        /\ obs[i].inWalk = 0

\* a signal 81 ticks after its fresh start
C6_Witness == \E i \in Signals : obs[i].stopwatch = 81

\* C7 as stated: 162 ticks after a fresh start the signal has passed through
\* exactly one walk phase of duration 20.
C7_OneWalkAfter162 ==
    \A i \in Signals :
      obs[i].stopwatch = 162 =>
        /\ obs[i].walksCompleted = 1
        /\ obs[i].inWalk = 20

\* C7 amended: 162 ticks after a fresh start the signal has just entered its
\* first walk phase (walk, countdown 20) and has spent no tick in it; it has
\* passed through exactly one walk phase, of 20 ticks, 182 ticks after the
\* fresh start, when it is again at (red, 45, completedCycles 0).
C7_WalkEnteredAt162CompletedAt182 ==
    \A i \in Signals :
      /\ obs[i].stopwatch = 162 =>
            /\ trafficSignals[i].currentState = "walk"
            /\ trafficSignals[i].countdown = 20
            /\ obs[i].walksEntered = 1
            /\ obs[i].walksCompleted = 0
            /\ obs[i].inWalk = 0
      /\ obs[i].stopwatch = 182 =>
            /\ trafficSignals[i].currentState = "red"
            /\ trafficSignals[i].countdown = 45
            /\ trafficSignals[i].completedCycles = 0
            /\ obs[i].walksEntered = 1
            /\ obs[i].walksCompleted = 1
            /\ obs[i].inWalk = 20

\* a signal 182 ticks after its fresh start
C7_Witness == \E i \in Signals : obs[i].stopwatch = 182

\* C8: a tick changes a signal's phase only along red -> green, green ->
\* yellow, yellow -> red, yellow -> walk and walk -> red (walk is entered only
\* from yellow and left only to red), and a phase is never restarted in place.
C8_PhaseOrder ==
    Ticked =>
      \A i \in Signals :
        LET from == prev[i].currentState
            to   == trafficSignals[i].currentState
        IN  IF from = to
            THEN trafficSignals[i].countdown < prev[i].countdown
            ELSE <<from, to>> \in { <<"red", "green">>, <<"green", "yellow">>,
                                    <<"yellow", "red">>, <<"yellow", "walk">>,
                                    <<"walk", "red">> }

\* a tick has taken a signal from yellow into walk
C8_Witness ==
    /\ Ticked
    /\ \E i \in Signals :
          /\ prev[i].currentState = "yellow"
          /\ trafficSignals[i].currentState = "walk"

\* C9: in every reachable state every signal has countdown >= 0.
C9_CountdownNonNegative ==
    \A i \in Signals : trafficSignals[i].countdown >= 0

\* a tick has found a countdown of 1 and so would have produced 0
C9_Witness ==
    /\ Ticked
    /\ \E i \in Signals :
          /\ prev[i].countdown = 1
          /\ trafficSignals[i].countdown > 0

\* C10: whenever a yellow exit is evaluated the signal's completedCycles is 0
\* or 1, and no stored signal state has completedCycles above 1.
C10_CompletedCyclesAtMostOne ==
    /\ \A i \in Signals : trafficSignals[i].completedCycles \in {0, 1}
    /\ Ticked =>
         \A i \in Signals :
           prev[i].currentState = "yellow" /\ RanOut(prev[i]) =>
             prev[i].completedCycles \in {0, 1}

\* a signal's second yellow exit has been evaluated, with completedCycles 1
C10_Witness ==
    /\ Ticked
    /\ \E i \in Signals :
          /\ prev[i].currentState = "yellow"
          /\ RanOut(prev[i])
          /\ prev[i].completedCycles = 1
          /\ obs[i].yellowExits >= 2


(***************************************************************************)
(* Properties of the factories.                                            *)
(***************************************************************************)
\* the last step installed a set built by createDemoSignals
DemoInstalled == lastOp \in {"mount", "locationChange"}

\* the last step installed a set, which no tick has touched yet
JustInstalled ==
    \/ DemoInstalled
    \/ lastOp = "enhanceAllSignals" /\ Live

\* the field `field` of the signals of the registry, in order
FieldOf(field) == [i \in Signals |-> trafficSignals[i][field]]

\* C11: createDemoSignals produces exactly 4 signals, with ids
\* demo_signal_1..demo_signal_4, initial phases [red, green, yellow, red],
\* initial countdowns [22, 26, 6, 43] (minTime + ((index*7+13) mod
\* (duration-minTime+1)) for the assigned phase), each with pedestrianWalk
\* false and completedCycles 0.
C11_DemoLayout ==
    DemoInstalled =>
        /\ Len(trafficSignals) = 4
        /\ FieldOf("id") = [i \in 1..4 |-> <<"demo_signal", i>>]
        /\ FieldOf("currentState") = <<"red", "green", "yellow", "red">>
        /\ FieldOf("countdown") = <<22, 26, 6, 43>>
        /\ \A i \in Signals :
              LET d == PhaseDuration(trafficSignals[i].currentState)
                  minTime == Max(5, (d * 2) \div 10)
              IN  trafficSignals[i].countdown
                      = minTime + (((i - 1) * 7 + 13) % (d - minTime + 1))
        /\ \A i \in Signals :
              /\ trafficSignals[i].pedestrianWalk = FALSE
              /\ trafficSignals[i].completedCycles = 0

\* the demo layout has been installed a second time, on a location change
C11_Witness ==
    /\ lastOp = "locationChange"
    /\ Len(trafficSignals) = 4
    /\ trafficSignals[4].countdown = 43

\* C12: every signal is created with a countdown within
\* [max(5, floor(duration*0.2)), duration] of the phase assigned to it, for
\* every index the factories use; hence none is created with countdown 0.
C12_InitialCountdownRange ==
    JustInstalled =>
        \A i \in Signals :
            LET d == PhaseDuration(trafficSignals[i].currentState)
            IN  /\ trafficSignals[i].countdown >= Max(5, (d * 2) \div 10)
                /\ trafficSignals[i].countdown <= d
                /\ trafficSignals[i].countdown # 0

\* a detected set holds a signal created at the top of its range and one
\* created at the bottom (red 45 and red 9)
C12_Witness ==
    /\ lastOp = "enhanceAllSignals"
    /\ Live
    /\ \E i, j \in Signals :
          /\ trafficSignals[i].currentState = "red"
          /\ trafficSignals[i].countdown = 45
          /\ trafficSignals[j].currentState = "red"
          /\ trafficSignals[j].countdown = 9

\* C13: an installed set (demo layout or adapted candidates) of two or more
\* signals never has all its signals starting in the same phase.
C13_NotAllSamePhase ==
    (JustInstalled /\ Len(trafficSignals) >= 2) =>
        \E i, j \in Signals :
            trafficSignals[i].currentState # trafficSignals[j].currentState

\* C14: in an installed set no two distinct signals have the same
\* (initial phase, initial countdown) pair.
C14_DistinctStartingPoints ==
    JustInstalled =>
        \A i, j \in Signals :
            i # j => <<trafficSignals[i].currentState, trafficSignals[i].countdown>>
                     # <<trafficSignals[j].currentState, trafficSignals[j].countdown>>

C16_DistinctIds ==
    \A i, j \in Signals : i # j => trafficSignals[i].id # trafficSignals[j].id


(***************************************************************************)
(* Properties of the tick timer.                                           *)
(***************************************************************************)
\* the timer effect has run for the current registry
TimerSettled == timerDep = timerDependency(trafficSignals)

\* C17: while the overlay is live and the timer effect has run, a tick
\* interval is active if and only if the registry is non-empty; none is
\* active before the overlay is mounted or after it is torn down.
C17_IntervalIffNonEmpty ==
    /\ (Live /\ TimerSettled) => (activeIntervals # {} <=> Len(trafficSignals) > 0)
    /\ ~Live => activeIntervals = {}

\* the interval started for the first set has been stopped by the teardown
C17_Witness ==
    /\ overlay = "unmounted"
    /\ intervalRef = 1
    /\ activeIntervals = {}

C19_AtMostOneInterval == Cardinality(activeIntervals) <= 1

\* an interval is active after the set it was started for has been replaced
\* and the location has changed
C19_Witness ==
    /\ activeIntervals = {1}
    /\ lastOp = "locationChange"
    /\ pendingDetections = 1

C21_CleanupRemovesMarkers ==
    lastOp \in {"clearSignalsFromMap", "locationChange"} =>
        mapMarkers \subseteq {signalMarkers}

\* C22: after createDemoSignals or enhanceAllSignals has installed a set, the
\* markers on the map are exactly the markers of the new set.
C22_OnlyMarkersOfNewSet ==
    JustInstalled => mapMarkers = {signalMarkers}

(***************************************************************************)
(* Properties of the tick as a whole.                                      *)
(***************************************************************************)
\* the phase-clock fields of a signal
ClockOf(signal) ==
    <<signal.currentState, signal.countdown, signal.pedestrianWalk,
      signal.completedCycles>>

\* the signal set after k ticks
RECURSIVE Advanced(_, _)
Advanced(signals, k) ==
    IF k = 0 THEN signals ELSE advanceAll(Advanced(signals, k - 1))

\* C23: after the set has been replaced while an interval runs, every tick
\* result derives from the new set: the first tick is applied to the set as
\* installed, every tick to the result of the previous one, and the signals
\* held are those of the new set.
C23_OnlyNewSetTicked ==
    (Live /\ runningAtInstall # {} /\ Ticked) =>
        /\ ticks = 1 => prev = installed
        /\ trafficSignals = advanceAll(prev)
        /\ FieldOf("id") = [i \in 1..Len(installed) |-> installed[i].id]

\* a detected set that replaced the demo set under a running interval has
\* been ticked twice
C23_Witness ==
    /\ Live
    /\ runningAtInstall # {}
    /\ Ticked
    /\ ticks = 2
    /\ lastBatch = <<>>
    /\ trafficSignals[1].id[1] # "demo_signal"

\* C24: a registry value a render can see after a tick has either every
\* signal advanced by the tick or none.
C24_TickAllOrNone ==
    Ticked =>
        /\ Len(trafficSignals) = Len(prev)
        /\ \/ \A i \in Signals : ClockOf(trafficSignals[i]) # ClockOf(prev[i])
           \/ \A i \in Signals : ClockOf(trafficSignals[i]) = ClockOf(prev[i])

\* a tick of a set of four in which one signal changes phase and the others
\* count down
C24_Witness ==
    /\ Ticked
    /\ Len(trafficSignals) = 4
    /\ \E i, j \in Signals :
          /\ trafficSignals[i].currentState # prev[i].currentState
          /\ trafficSignals[j].currentState = prev[j].currentState

\* C25: after the interval has fired k times on a set, every signal of the
\* registry is the installed signal advanced by exactly k steps, each applied
\* to the result of the previous one.
C25_TicksSerialized ==
    Live => trafficSignals = Advanced(installed, ticks)

\* an installed set after the last tick the bound admits
C25_Witness ==
    /\ Live
    /\ Ticked
    /\ ticks = FactoryTicks
    /\ Len(trafficSignals) >= 2

C27_TickFrame ==
    Ticked =>
        /\ Len(trafficSignals) = Len(prev)
        /\ \A i \in Signals :
              /\ trafficSignals[i].id = prev[i].id
              /\ trafficSignals[i].lat = prev[i].lat
              /\ trafficSignals[i].lng = prev[i].lng
              /\ trafficSignals[i].name = prev[i].name

\* a tick of a set of several signals that changed the phase of a signal
C27_Witness ==
    /\ Ticked
    /\ Len(trafficSignals) >= 2
    /\ trafficSignals[1].id # trafficSignals[2].id
    /\ \E i \in Signals : trafficSignals[i].currentState # prev[i].currentState

(***************************************************************************)
(* Properties of the adaptation of candidates.                             *)
(***************************************************************************)
\* the first coordinate source of a candidate that holds a value
FirstDefined(a, b, c) ==
    IF a # Undefined THEN a ELSE IF b # Undefined THEN b ELSE c

\* the latitude and longitude a candidate supplies, if any
ResolvedLat(candidate) ==
    FirstDefined(candidate.lat, candidate.geometryLat, candidate.latlngLat)
ResolvedLng(candidate) ==
    FirstDefined(candidate.lng, candidate.geometryLng, candidate.latlngLng)

\* the candidate supplies both a latitude and a longitude
Resolvable(candidate) ==
    ResolvedLat(candidate) # Undefined /\ ResolvedLng(candidate) # Undefined

\* the last step was a detection run that handed a batch to enhanceAllSignals
\* of a live overlay
Adapted == lastBatch # <<>> /\ Live

\* C28: after a batch has been adapted, the installed signals are the
\* candidates of the batch with a resolvable latitude and longitude, in
\* order, each at its position; the candidates without are absent.
C28_DegradesByOmission ==
    Adapted =>
        LET expected == SelectSeq(lastBatch, Resolvable)
        IN  IF lastOp = "enhanceAllSignals"
            THEN /\ Len(trafficSignals) = Len(expected)
                 /\ \A k \in 1..Len(expected) :
                       /\ Some(trafficSignals[k].lat) = ResolvedLat(expected[k])
                       /\ Some(trafficSignals[k].lng) = ResolvedLng(expected[k])
            ELSE Len(expected) = 0

\* C29: a detection run whose batch has no survivor leaves the registry, the
\* markers and the running interval as they were and keeps a detection
\* scheduled.
C29_NoSurvivorChangesNothing ==
    [][(lastOp' = "retryDetection" /\ lastBatch' # <<>>) =>
          /\ UNCHANGED <<trafficSignals, mapMarkers, signalMarkers, activeIntervals>>
          /\ pendingDetections' = pendingDetections
          /\ pendingDetections' > 0]_vars

\* a batch without survivor has been adapted while a ticked set is held and
\* its interval runs
C29_Witness ==
    /\ lastOp = "retryDetection"
    /\ lastBatch # <<>>
    /\ Live
    /\ ticks > 0
    /\ Len(trafficSignals) = 4
    /\ activeIntervals # {}
    /\ pendingDetections > 0

\* C30: when the map is available and no location is supplied, the registry
\* holds the demo signals of the fallback anchor.
C30_FallbackAnchorSeeded ==
    lastOp = "noLocation" =>
        trafficSignals = demoSignals(seedLocation(currentLocation))

(***************************************************************************)
(* Timing patterns of the README (src/README.md, lines 23-27).             *)
(***************************************************************************)
\* the duration the README gives each phase
ReadmeDuration(phase) ==
    CASE phase = "red" -> 45 [] phase = "green" -> 30
      [] phase = "yellow" -> 6 [] phase = "walk" -> 30

\* a tick that changes the phase of a signal starts the new phase with the
\* countdown `duration` gives it, and a signal that has completed its first
\* walk since a fresh start has spent duration("walk") ticks in walk
TimingPattern(duration(_)) ==
    \A i \in Signals :
      /\ (Ticked /\ prev[i].currentState # trafficSignals[i].currentState) =>
            trafficSignals[i].countdown = duration(trafficSignals[i].currentState)
      /\ (obs[i].walksEntered = 1 /\ obs[i].walksCompleted = 1) =>
            obs[i].inWalk = duration("walk")

\* a walk occurs every 2 cycles: the tick on which a yellow runs out starts a
\* walk exactly when it completes the second cycle, and the first walk after
\* a fresh start begins after two cycles of red 45, green 30 and yellow 6
WalkEverySecondCycle ==
    \A i \in Signals :
      /\ (Ticked /\ prev[i].currentState = "yellow" /\ RanOut(prev[i])) =>
            (trafficSignals[i].currentState = "walk"
               <=> prev[i].completedCycles + 1 >= 2)
      /\ (obs[i].walksEntered = 1 /\ obs[i].inWalk = 0) =>
            /\ obs[i].inRed = 2 * 45
            /\ obs[i].inGreen = 2 * 30
            /\ obs[i].inYellow = 2 * 6

\* C31 as stated: the walk phase lasts 30 ticks and occurs every 2 cycles, with
\* red 45, green 30 and yellow 6 ticks.
C31_ReadmeTiming == TimingPattern(ReadmeDuration) /\ WalkEverySecondCycle

\* what the code does: the walk phase lasts 20 ticks and occurs every 2
\* cycles, with red 45, green 30 and yellow 6 ticks
WalkLastsTwenty == TimingPattern(PhaseDuration) /\ WalkEverySecondCycle

(***************************************************************************)
(* The phase clock by itself: the state updater of updateSignalStates      *)
(* (prev => prev.map(...)) applied to registry values drawn from the empty *)
(* registry, the demo set and the one-signal registries over every clock   *)
(* state of the cycle.  The overlay is mounted and an interval runs.  A    *)
(* signal with completedCycles 1 has made one yellow exit.  The empty      *)
(* registry is an input of the updater only: while an interval runs the    *)
(* registry of Spec is never empty (C17).                                  *)
(***************************************************************************)
\* a signal with the given phase-clock fields
clockSignal(phase, countdown, cycles) ==
    [demoSignal(defaultLocation, 0) EXCEPT
        !.currentState = phase,
        !.countdown = countdown,
        !.pedestrianWalk = (phase = "walk"),
        !.completedCycles = cycles]

\* the clock states of the cycle: every phase with every countdown from 1 to
\* its duration, before and after the first completed cycle (walk follows
\* the reset of completedCycles)
ClockStates ==
    { clockSignal(c[1], c[2], c[3]) :
        c \in { d \in Phases \X (1..45) \X (0..1) :
                  /\ d[2] <= PhaseDuration(d[1])
                  /\ d[1] = "walk" => d[3] = 0 } }

\* the registry values the updater is applied to
ClockRegistries ==
    { <<>>, demoSignals(defaultLocation) }
        \cup { <<signal>> : signal \in ClockStates }

ClockInit ==
    /\ trafficSignals \in ClockRegistries
    /\ currentLocation = Some(defaultLocation)
    /\ pendingDetections = 0
    /\ overlay = "mounted"
    /\ intervalRef = 1
    /\ activeIntervals = {1}
    /\ nextHandle = 2
    /\ timerDep = timerDependency(trafficSignals)
    /\ mapMarkers = {1}
    /\ shown = [group \in {1} |-> signalElements(trafficSignals)]
    /\ signalMarkers = 1
    /\ cleanupMarkers = 0
    /\ nextMarker = 2
    /\ ticks = 0
    /\ lastOp = "init"
    /\ prev = <<>>
    /\ obs = [i \in 1..Len(trafficSignals) |->
                [ObserveNew(trafficSignals)[i] EXCEPT
                    !.yellowExits = trafficSignals[i].completedCycles]]
    /\ tickHandle = 0
    /\ runningAtInstall = {}
    /\ firstDemo = <<>>
    /\ installed = trafficSignals
    /\ lastBatch = <<>>

\* the interval callback, for at most ClockTicks firings
clockTick == tickWithin(ClockTicks)

ClockNext == clockTick

ClockSpec == ClockInit /\ [][ClockNext]_vars

\* C32: a tick applied to an empty registry leaves the registry empty and
\* changes nothing else of the program's state (location, pending
\* detections, overlay, timer and markers).
C32_TickOnEmptyIsNoOp ==
    [][(Len(trafficSignals) = 0 /\ lastOp' = "updateSignalStates") =>
          /\ trafficSignals' = <<>>
          /\ UNCHANGED <<currentLocation, pendingDetections, overlay,
                         intervalRef, activeIntervals, nextHandle, timerDep,
                         mapMarkers, signalMarkers, cleanupMarkers,
                         nextMarker>>]_vars

\* a tick has been applied to the empty registry
C32_Witness == Ticked /\ ticks > 0 /\ installed = <<>> /\ trafficSignals = <<>>

\* C37: in every registry state the countdown of every signal is between 1
\* and the duration of its phase (red 45, green 30, yellow 6, walk 20); no
\* countdown of 0 is stored.
C37_CountdownWithinPhase ==
    \A i \in Signals :
      /\ trafficSignals[i].countdown >= 1
      /\ trafficSignals[i].countdown <= PhaseDuration(trafficSignals[i].currentState)

\* a tick has found a countdown of 1 and started the next phase at its full
\* duration
C37_Witness ==
    \E i \in Signals :
      /\ Ticked
      /\ prev[i].countdown = 1
      /\ trafficSignals[i].currentState # prev[i].currentState
      /\ trafficSignals[i].countdown = PhaseDuration(trafficSignals[i].currentState)

\* C38: 182 ticks take a signal from any clock state of the cycle (phase,
\* countdown, pedestrianWalk, completedCycles) back to exactly that state,
\* and 20 of those ticks find it in walk.
C38_Period182 ==
    ticks = 182 =>
      \A i \in Signals :
        /\ ClockOf(trafficSignals[i]) = ClockOf(installed[i])
        /\ trafficSignals[i] = installed[i]
        /\ obs[i].walkTicks = 20

\* 182 ticks have been applied to a signal that started in the middle of a
\* walk
C38_Witness ==
    /\ ticks = 182
    /\ Len(installed) = 1
    /\ installed[1].currentState = "walk"
    /\ installed[1].countdown = 10
    /\ Ticked

(***************************************************************************)
(* Coordinates of adapted candidates.                                      *)
(***************************************************************************)
\* C39: a candidate of an adapted batch that supplies a latitude and a
\* longitude (explicit lat/lng before geometry before latlng), the value 0
\* included, is installed as a signal at that position; only candidates
\* that supply no latitude or no longitude are dropped.
C39_DroppedOnlyWithoutCoordinates ==
    Adapted =>
      \A k \in 1..Len(lastBatch) :
        Resolvable(lastBatch[k]) =>
          /\ lastOp = "enhanceAllSignals"
          /\ \E i \in Signals :
                /\ Some(trafficSignals[i].lat) = ResolvedLat(lastBatch[k])
                /\ Some(trafficSignals[i].lng) = ResolvedLng(lastBatch[k])

(***************************************************************************)
(* Detection chains and the overlay context.                               *)
(***************************************************************************)
\* the registry holds a set installed by a detection run (the ids of demo
\* signals are demo_signal_n; detected signals carry other ids)
DetectedHeld ==
    /\ Len(trafficSignals) > 0
    /\ \A i \in Signals : trafficSignals[i].id[1] # "demo_signal"

\* C35: a detection run of a live overlay with at least one survivor leaves
\* exactly the adapted survivors in the registry and ends its chain; from
\* then on, until the context is torn down (location change or unmount),
\* only ticks change the registry.
C35_DetectedSetChangedOnlyByTicks ==
    [][/\ (Live /\ lastOp' = "enhanceAllSignals") =>
             /\ trafficSignals' = enhancedSignals(lastBatch')
             /\ pendingDetections' = pendingDetections - 1
       /\ (Live /\ DetectedHeld /\ overlay' = "mounted"
              /\ lastOp' # "locationChange") =>
             (lastOp' = "updateSignalStates" \/ trafficSignals' = trafficSignals)
      ]_vars

\* C36: at most one detection chain is pending, none is pending once the
\* overlay is unmounted, and none runs then; after a location change only
\* the chain of the new context is pending.
C36_DetectionEndsWithContext ==
    /\ pendingDetections <= 1
    /\ overlay = "unmounted" =>
          /\ pendingDetections = 0
          /\ lastOp \notin {"enhanceAllSignals", "retryDetection"}

(***************************************************************************)
(* The marker elements and the registry.                                   *)
(***************************************************************************)
\* C33: while the overlay is mounted, every marker element on the map whose
\* id is the id of a registry signal shows that signal's phase (colour and
\* icon) and countdown, and holds a walk dot exactly if the signal's
\* pedestrianWalk is true.
C33_MarkersReflectRegistry ==
    Live =>
      \A group \in DOMAIN shown :
        \A m \in 1..Len(shown[group]) :
          \A i \in Signals :
            (trafficSignals[i].id = shown[group][m].id
               /\ i = findSignal(trafficSignals, shown[group][m].id)) =>
              /\ shown[group][m].background
                    = getSignalBackgroundColor(trafficSignals[i].currentState)
              /\ shown[group][m].icon = getSignalIcon(trafficSignals[i].currentState)
              /\ shown[group][m].timer = trafficSignals[i].countdown
              /\ shown[group][m].walkDot = trafficSignals[i].pedestrianWalk

(***************************************************************************)
(* Retried detection.                                                      *)
(***************************************************************************)
\* C34: a detection run that installs nothing leaves a further run
\* scheduled, and a run of a live overlay that is supplied at least one
\* candidate with a latitude and a longitude leaves the adapted detected
\* set in the registry.
C34_RetriedUntilInstalled ==
    /\ lastOp = "retryDetection" => pendingDetections > 0
    /\ (Adapted /\ \E k \in 1..Len(lastBatch) : Resolvable(lastBatch[k])) =>
          /\ lastOp = "enhanceAllSignals"
          /\ DetectedHeld
          /\ trafficSignals = enhancedSignals(lastBatch)


====
